---- MODULE Spec2Model ----
(***************************************************************************)
(* PulseRadar: prediction discrepancies, evaluator reputation and the      *)
(* endpoint trust score.                                                   *)
(*                                                                         *)
(* The D1 tables are sequences of rows (row id = position).  Each HTTP     *)
(* request is a process whose steps are the awaited database statements of *)
(* its handler, so that requests served concurrently interleave between    *)
(* statements exactly where the Workers runtime lets them.                 *)
(*                                                                         *)
(* REAL columns are modelled as exact fractions <<numerator, denominator>> *)
(* in lowest terms; the IEEE rounding of the doubles is not modelled.      *)
(***************************************************************************)
EXTENDS Integers, Sequences, FiniteSets, TLC

(* ------------------------------ bounds --------------------------------- *)

\* number of HTTP requests served in one behaviour
MaxRequests == 2

\* number of rows in endpoint_tests
MaxTests == 3

\* number of runs of calculateAllTrustScores on an endpoint in one behaviour
MaxJobs == 2

\* the arguments the scoring functions are applied to are the multiples of
\* 1/ScoreGrid percent and of 50/ScoreGrid milliseconds
ScoreGrid == 4

(* ------------------------- values and helpers -------------------------- *)

\* SQL NULL / JavaScript undefined; a present value v is <<v>>
NULL == <<>>

Some(v) == <<v>>

\* JavaScript Math.abs on integers
Abs(x) == IF x < 0 THEN -x ELSE x

RECURSIVE GCD(_, _)
GCD(a, b) == IF b = 0 THEN a ELSE GCD(b, a % b)

\* a fraction in lowest terms with a positive denominator
Frac(n, d) ==
  LET g == GCD(Abs(n), Abs(d))
      s == IF d < 0 THEN -1 ELSE 1
  IN  <<(s * n) \div g, (s * d) \div g>>

FracLess(x, y) == x[1] * y[2] < y[1] * x[2]

\* an integer as a fraction
Int2Frac(n) == <<n, 1>>

\* x + y over the least common denominator
FracAdd(x, y) ==
  LET g == GCD(x[2], y[2])
  IN  Frac(x[1] * (y[2] \div g) + y[1] * (x[2] \div g), (x[2] \div g) * y[2])

FracSub(x, y) == FracAdd(x, <<-y[1], y[2]>>)

\* x * y of fractions in lowest terms, cancelling across before multiplying
FracMul(x, y) ==
  LET a == GCD(Abs(x[1]), y[2])
      b == GCD(Abs(y[1]), x[2])
  IN  <<(x[1] \div a) * (y[1] \div b), (x[2] \div b) * (y[2] \div a)>>

\* x / n for an integer n > 0
FracDivInt(x, n) == FracMul(x, <<1, n>>)

\* x >= n, x < n for an integer n
FracGeqInt(x, n) == x[1] >= n * x[2]

FracLessInt(x, n) == x[1] < n * x[2]

\* JavaScript Math.round: the nearest integer, halves towards +infinity
MathRound(x) == (2 * x[1] + x[2]) \div (2 * x[2])

\* Math.round(x * 10) / 10
RoundToTenth(x) == Frac(MathRound(<<10 * x[1], x[2]>>), 10)

\* Math.max, Math.min on fractions
FracMax(x, y) == IF FracLess(x, y) THEN y ELSE x

FracMin(x, y) == IF FracLess(y, x) THEN y ELSE x

(* --------------------------- schema defaults --------------------------- *)

\* evaluators.trust_score INTEGER DEFAULT 500
DefaultTrustScore == 500

\* the row an INSERT INTO evaluators that names only the url produces
NewEvaluatorRow(id, url) ==
  [ id                       |-> id,
    evaluator_url            |-> url,
    trust_score              |-> DefaultTrustScore,
    prediction_accuracy_rate |-> Frac(0, 1),
    total_evaluations        |-> 0,
    total_predictions        |-> 0,
    avg_absolute_error       |-> Frac(0, 1),
    grade_accuracy_rate      |-> Frac(0, 1) ]

(* ------------------------------ inputs --------------------------------- *)

EvaluatorUrls == {"ev1", "ev2"}

\* request bodies of POST /internal/agent-discrepancy.  The derived fields
\* (score_difference, absolute_error, grade_match, accuracy_category,
\* overestimated) are sent by the caller; the set holds bodies whose derived
\* fields agree with the scores and bodies whose derived fields do not.
DBody(u, t, p, a, diff, err, pg, ag, gm, cat, over) ==
  [ evaluator_url     |-> u,
    target_url        |-> t,
    predicted_score   |-> p,
    actual_score      |-> a,
    score_difference  |-> diff,
    absolute_error    |-> err,
    predicted_grade   |-> pg,
    actual_grade      |-> ag,
    grade_match       |-> gm,
    accuracy_category |-> cat,
    overestimated     |-> over ]

DiscrepancyBodies ==
  UNION { { DBody(u, "t1", Some(80), Some(72), -8, 8, "B", "C", FALSE, "good", TRUE),
            DBody(u, "t1", Some(70), Some(72), 2, 2, "C", "C", TRUE, "excellent", FALSE),
            DBody(u, "t1", Some(50), Some(72), 22, 22, "D", "C", FALSE, "poor", FALSE),
            DBody(u, "t1", Some(60), Some(72), 12, 12, "D", "C", FALSE, "fair", FALSE),
            DBody(u, "t1", Some(80), Some(72), 5, 150, "B", "C", TRUE, "excellent", FALSE),
            DBody(u, "t1", Some(70), Some(72), 2, -10, "C", "C", TRUE, "poor", FALSE)
          } : u \in {"ev1"} }
  \cup { DBody("ev2", "t1", Some(70), Some(72), 2, 2, "C", "C", TRUE, "excellent", FALSE),
 DBody("", "t1", Some(80), Some(72), -8, 8, "B", "C", FALSE, "good", TRUE),
         DBody("ev1", "", Some(80), Some(72), -8, 8, "B", "C", FALSE, "good", TRUE),
         DBody("ev1", "t1", NULL, Some(72), -8, 8, "B", "C", FALSE, "good", TRUE),
         DBody("ev1", "t1", Some(80), NULL, -8, 8, "B", "C", FALSE, "good", TRUE) }

\* request bodies of POST /internal/agent-prediction
PBody(u, t, p, pg, conf) ==
  [ evaluator_url    |-> u,
    target_url       |-> t,
    predicted_score  |-> p,
    predicted_grade  |-> pg,
    confidence_level |-> conf ]

PredictionBodies ==
  { PBody("ev1", "t1", Some(80), "B", Frac(4, 5)),
    PBody("ev1", "t1", Some(0), "F", Frac(4, 5)),
    PBody("ev1", "t1", Some(80), "B", Frac(3, 2)),
    PBody("", "t1", Some(80), "B", Frac(4, 5)) }

\* request bodies of POST /internal/agent-evaluation
EBody(u, t, sc, g) ==
  [ evaluator_url |-> u,
    target_url    |-> t,
    score         |-> sc,
    grade         |-> g ]

EvaluationBodies ==
  { EBody("ev1", "t1", Some(72), "C"),
    EBody("ev1", "t1", Some(0), "F"),
    EBody("ev1", "", Some(72), "C") }

\* endpoints.id of the endpoints discovered before a behaviour starts
Endpoints == {1, 2}

\* endpoints.url: the urls of the two discovered endpoints and of one that
\* is not in the table
EndpointUrls == <<"u1", "u2", "u3">>

\* env.INTERNAL_API_KEY, the configured key
INTERNAL_API_KEY == Some("secret")

\* request headers: request.headers.get gives null (NULL) for a header that
\* is absent and the string for one that is present; the amount is a string
\* of characters
Headers(apiKey, paymentProof, paymentAmount) ==
  [ api_key        |-> apiKey,
    payment_proof  |-> paymentProof,
    payment_amount |-> paymentAmount ]

\* the headers of the agents, which hold the internal key and pay nothing
AgentHeaders == Headers(INTERNAL_API_KEY, NULL, NULL)

\* the headers tried on the /internal/* routes: the key, no key, and a wrong
\* key with a payment of 0.50
InternalHeaders ==
  { AgentHeaders,
    Headers(NULL, NULL, NULL),
    Headers(Some("guess"), Some("proof"), Some(<<"0", ".", "5", "0">>)) }

\* the headers tried on the priced routes: the key; nothing; a proof with
\* 0.50, with 0.25, with an amount that is not a number, with no amount; an
\* amount with no proof
PricedHeaders ==
  { AgentHeaders,
    Headers(NULL, NULL, NULL),
    Headers(Some("guess"), Some("proof"), Some(<<"0", ".", "5", "0">>)),
    Headers(NULL, Some("proof"), Some(<<"0", ".", "2", "5">>)),
    Headers(NULL, Some("proof"), Some(<<"a", "b", "c">>)),
    Headers(NULL, Some("proof"), NULL),
    Headers(NULL, NULL, Some(<<"0", ".", "5", "0">>)) }

(* ------------------------------- state --------------------------------- *)

VARIABLES
  evaluators,                   \* table evaluators
  prediction_discrepancies,     \* table prediction_discrepancies
  evaluator_reputation_history, \* table evaluator_reputation_history
  evaluation_predictions,       \* table evaluation_predictions
  agent_evaluations,            \* table agent_evaluations
  refsNotNull,                  \* the deployed prediction_discrepancies table
                                \* enforces NOT NULL on prediction_id and
                                \* evaluation_id
  req,                          \* the requests: handler, position, body, locals
  overlapped,                   \* evaluator urls for which two discrepancy
                                \* requests were in flight at the same time
  endpoint_tests,               \* table endpoint_tests
  trust_scores,                 \* table trust_scores
  now,                          \* Math.floor(Date.now() / 1000)
  job,                          \* the runs of calculateAllTrustScores on an
                                \* endpoint: position, window read, result
  verified,                     \* the verify-live response being built:
                                \* endpoint, window read, result
  headers,                      \* the headers each request arrives with:
                                \* X-Internal-API-Key, X-Payment-Proof,
                                \* X-Payment-Amount
  endpoints,                    \* table endpoints
  agent_health_reports,         \* table agent_health_reports
  runs,                         \* the jobs the trigger routes have started:
                                \* job and request
  sample                        \* a scoring function applied to an input:
                                \* function, argument, result

\* the state of the reputation handlers
reputationVars ==
  <<evaluators, prediction_discrepancies, evaluator_reputation_history,
    evaluation_predictions, agent_evaluations, refsNotNull, req, overlapped>>

\* the state of the trust-score engine
trustVars == <<endpoint_tests, trust_scores, now, job, verified>>

\* the state of the request gateway
gatewayVars == <<headers, endpoints, agent_health_reports, runs>>

vars == <<evaluators, prediction_discrepancies, evaluator_reputation_history,
          evaluation_predictions, agent_evaluations, refsNotNull, req, overlapped,
          endpoint_tests, trust_scores, now, job, verified,
          headers, endpoints, agent_health_reports, runs, sample>>

\* Math.floor(Date.now() / 1000) at the start of a behaviour
Epoch == 86400

Jobs == 1..MaxJobs

\* a computation that has not started yet
IdleJob ==
  [ pc |-> "idle", endpoint_id |-> 0, tests |-> <<>>,
    at |-> 0, score |-> NULL ]

Requests == 1..MaxRequests

\* a request that has not arrived yet
IdleRequest ==
  [ pc |-> "idle", handler |-> "none", body |-> NULL, evaluator |-> NULL, status |-> 0 ]

\* discrepancy requests for evaluator url u that are being handled
InFlight(u) ==
  { r \in Requests : /\ req[r].handler = "discrepancy"
                     /\ req[r].pc \in {"select", "update"}
                     /\ req[r].body.evaluator_url = u }

\* requests get their number in the order of arrival
NextToArrive(r) ==
  /\ req[r].pc = "idle"
  /\ \A q \in Requests : q < r => req[q].pc # "idle"

\* the handler returns its Response
Respond(r, code) == [ req EXCEPT ![r].pc = "done", ![r].status = code ]

\* SELECT ... FROM evaluators WHERE evaluator_url = ?  (.first())
SelectEvaluator(url) ==
  LET hits == { i \in DOMAIN evaluators : evaluators[i].evaluator_url = url }
  IN  IF hits = {} THEN NULL
      ELSE Some(evaluators[CHOOSE i \in hits : \A j \in hits : i <= j])

\* a row of endpoints: the columns the handlers of the model read or write
EndpointRow(id, url, discoveredAt, lastSeenAt, source) ==
  [ id               |-> id,
    url              |-> url,
    discovered_at    |-> discoveredAt,
    last_seen_at     |-> lastSeenAt,
    discovery_source |-> source,
    last_checked_at  |-> NULL,
    is_active        |-> 1 ]

\* no scoring function has been applied
NoSample == [ fn |-> "none", x |-> <<0, 1>>, y |-> <<0, 1>> ]

\* the tables as the migrations create them, two endpoints discovered six
\* hours ago, no request received
InitTables ==
  /\ evaluators = <<>>
  /\ prediction_discrepancies = <<>>
  /\ evaluator_reputation_history = <<>>
  /\ evaluation_predictions = <<>>
  /\ agent_evaluations = <<>>
  /\ refsNotNull \in BOOLEAN
  /\ req = [ r \in Requests |-> IdleRequest ]
  /\ overlapped = {}
  /\ endpoint_tests = <<>>
  /\ trust_scores = <<>>
  /\ now = Epoch
  /\ job = [ j \in Jobs |-> IdleJob ]
  /\ verified = NULL
  /\ endpoints = [ e \in Endpoints |->
                     EndpointRow(e, EndpointUrls[e], Epoch - 21600, Epoch - 21600, "seed") ]
  /\ agent_health_reports = <<>>
  /\ runs = {}
  /\ sample = NoSample

\* every request comes from an agent that holds the internal key
Init ==
  /\ InitTables
  /\ headers = [ r \in Requests |-> AgentHeaders ]


(* -------------------- the evaluators table is filled ------------------- *)

\* No statement of the worker inserts into evaluators; a profile row comes
\* from outside (an operator's INSERT naming the url), with the column
\* defaults of the migration.  evaluator_url is UNIQUE.
RegisterEvaluator(u) ==
  /\ SelectEvaluator(u) = NULL
  /\ evaluators' = Append(evaluators, NewEvaluatorRow(Len(evaluators) + 1, u))
  /\ UNCHANGED <<prediction_discrepancies, evaluator_reputation_history,
                 evaluation_predictions, agent_evaluations, refsNotNull, req,
                 overlapped>>
  /\ UNCHANGED trustVars
  /\ UNCHANGED <<gatewayVars, sample>>

(* ------------------------ handleAgentDiscrepancy ----------------------- *)

\* if (!body.evaluator_url || !body.target_url ||
\*     body.predicted_score === undefined || body.actual_score === undefined)
DiscrepancyMissingFields(body) ==
  \/ body.evaluator_url = ""
  \/ body.target_url = ""
  \/ body.predicted_score = NULL
  \/ body.actual_score = NULL

\* the row the INSERT INTO prediction_discrepancies binds: fifteen columns
\* taken from the body; prediction_id and evaluation_id are not in the list
DiscrepancyRow(id, body) ==
  [ id                |-> id,
    prediction_id     |-> NULL,
    evaluation_id     |-> NULL,
    evaluator_url     |-> body.evaluator_url,
    target_url        |-> body.target_url,
    predicted_score   |-> body.predicted_score[1],
    actual_score      |-> body.actual_score[1],
    score_difference  |-> body.score_difference,
    absolute_error    |-> body.absolute_error,
    predicted_grade   |-> body.predicted_grade,
    actual_grade      |-> body.actual_grade,
    grade_match       |-> IF body.grade_match THEN 1 ELSE 0,
    accuracy_category |-> body.accuracy_category,
    overestimated     |-> IF body.overestimated THEN 1 ELSE 0 ]

\* variant of RunningAverage: the old average is weighted by the new count
RunningAverage_WeightsNewCount(oldAvg, oldN, x) ==
  Frac(oldAvg[1] * (oldN + 1) + x * oldAvg[2], oldAvg[2] * (oldN + 1))

\* (oldAvg * oldN + x) / (oldN + 1)
RunningAverage(oldAvg, oldN, x) ==
  Frac(oldAvg[1] * oldN + x * oldAvg[2], oldAvg[2] * (oldN + 1))

\* 1.0 - (newAvgError / 100)
AccuracyRate(newAvgError) ==
  Frac(100 * newAvgError[2] - newAvgError[1], 100 * newAvgError[2])

\* variant of UpdatedEvaluatorRow: the statement also charges the error
\* against trust_score, fifteen points per point of error, without clamping
UpdatedEvaluatorRow_UnclampedPenalty(row, evaluator, body) ==
  LET newTotalPredictions == evaluator.total_predictions + 1
      newAvgError == RunningAverage(evaluator.avg_absolute_error,
                                    evaluator.total_predictions,
                                    body.absolute_error)
      gradeMatch == IF body.grade_match THEN 1 ELSE 0
      newGradeAccuracy == RunningAverage(evaluator.grade_accuracy_rate,
                                         evaluator.total_predictions,
                                         gradeMatch)
  IN  [ row EXCEPT !.total_predictions = newTotalPredictions,
                   !.avg_absolute_error = newAvgError,
                   !.grade_accuracy_rate = newGradeAccuracy,
                   !.prediction_accuracy_rate = AccuracyRate(newAvgError),
                   !.trust_score = row.trust_score - 15 * body.absolute_error ]

\* UPDATE evaluators SET total_predictions, avg_absolute_error,
\* grade_accuracy_rate, prediction_accuracy_rate: the values are computed
\* from the row the SELECT returned (evaluator), and written over the row
\* as it is now (row); the other columns keep their values
UpdatedEvaluatorRow(row, evaluator, body) ==
  LET newTotalPredictions == evaluator.total_predictions + 1
      newAvgError == RunningAverage(evaluator.avg_absolute_error,
                                    evaluator.total_predictions,
                                    body.absolute_error)
      gradeMatch == IF body.grade_match THEN 1 ELSE 0
      newGradeAccuracy == RunningAverage(evaluator.grade_accuracy_rate,
                                         evaluator.total_predictions,
                                         gradeMatch)
  IN  [ row EXCEPT !.total_predictions = newTotalPredictions,
                   !.avg_absolute_error = newAvgError,
                   !.grade_accuracy_rate = newGradeAccuracy,
                   !.prediction_accuracy_rate = AccuracyRate(newAvgError) ]

\* await request.json(), the validation of the required fields, and
\* await INSERT INTO prediction_discrepancies ... .run(); nothing shared is
\* read or written before the INSERT, so the three are one step.  A
\* constraint error of the INSERT is caught by the handler's catch and
\* answered 500.
DiscrepancyReceive(r, body) ==
  /\ NextToArrive(r)
  /\ LET arrived == [ IdleRequest EXCEPT !.handler = "discrepancy", !.body = body ]
     IN  IF DiscrepancyMissingFields(body)
         THEN /\ req' = [ req EXCEPT ![r] = [ arrived EXCEPT !.pc = "done", !.status = 400 ] ]
              /\ UNCHANGED <<prediction_discrepancies, overlapped>>
         ELSE IF refsNotNull
         THEN /\ req' = [ req EXCEPT ![r] = [ arrived EXCEPT !.pc = "done", !.status = 500 ] ]
              /\ UNCHANGED <<prediction_discrepancies, overlapped>>
         ELSE /\ prediction_discrepancies' =
                   Append(prediction_discrepancies,
                          DiscrepancyRow(Len(prediction_discrepancies) + 1, body))
              /\ req' = [ req EXCEPT ![r] = [ arrived EXCEPT !.pc = "select" ] ]
              /\ overlapped' = IF InFlight(body.evaluator_url) # {}
                                 THEN overlapped \cup {body.evaluator_url}
                                 ELSE overlapped
  /\ UNCHANGED <<evaluators, evaluator_reputation_history,
                 evaluation_predictions, agent_evaluations, refsNotNull>>
  /\ UNCHANGED trustVars
  /\ UNCHANGED <<gatewayVars, sample>>

\* the columns the handler's SELECT names
SelectedColumns(row) ==
  [ id                  |-> row.id,
    total_predictions   |-> row.total_predictions,
    avg_absolute_error  |-> row.avg_absolute_error,
    grade_accuracy_rate |-> row.grade_accuracy_rate ]

\* await SELECT id, total_predictions, avg_absolute_error,
\* grade_accuracy_rate FROM evaluators WHERE evaluator_url = ?  .first();
\* without a row the handler goes on to its 200 response
DiscrepancySelect(r) ==
  /\ req[r].handler = "discrepancy"
  /\ req[r].pc = "select"
  /\ LET evaluator == SelectEvaluator(req[r].body.evaluator_url)
     IN  IF evaluator = NULL
         THEN req' = Respond(r, 200)
         ELSE req' = [ req EXCEPT ![r].pc = "update",
                                  ![r].evaluator = Some(SelectedColumns(evaluator[1])) ]
  /\ UNCHANGED <<evaluators, prediction_discrepancies,
                 evaluator_reputation_history, evaluation_predictions,
                 agent_evaluations, refsNotNull, overlapped>>
  /\ UNCHANGED trustVars
  /\ UNCHANGED <<gatewayVars, sample>>

\* await UPDATE evaluators SET ... WHERE id = ?  .run(), then the response
DiscrepancyUpdate(r) ==
  /\ req[r].handler = "discrepancy"
  /\ req[r].pc = "update"
  /\ LET evaluator == req[r].evaluator[1]
     IN  evaluators' = [ evaluators EXCEPT ![evaluator.id] =
                           UpdatedEvaluatorRow(@, evaluator, req[r].body) ]
  /\ req' = Respond(r, 200)
  /\ UNCHANGED <<prediction_discrepancies, evaluator_reputation_history,
                 evaluation_predictions, agent_evaluations, refsNotNull,
                 overlapped>>
  /\ UNCHANGED trustVars
  /\ UNCHANGED <<gatewayVars, sample>>

\* a statement after the INSERT rejects (D1 answers with an error): the
\* handler's catch logs it and answers 500 with success: false; what the
\* statements before it wrote stays written, the handler opens no transaction
DiscrepancyStatementFails(r) ==
  /\ req[r].handler = "discrepancy"
  /\ req[r].pc \in {"select", "update"}
  /\ req' = Respond(r, 500)
  /\ UNCHANGED <<evaluators, prediction_discrepancies,
                 evaluator_reputation_history, evaluation_predictions,
                 agent_evaluations, refsNotNull, overlapped>>
  /\ UNCHANGED trustVars
  /\ UNCHANGED <<gatewayVars, sample>>

(* ------------------------- handleAgentPrediction ----------------------- *)

\* JavaScript !x for a number that may be undefined
Falsy(x) == x = NULL \/ x[1] = 0

\* if (!body.evaluator_url || !body.target_url || !body.predicted_score ||
\*     !body.predicted_grade)
PredictionMissingFields(body) ==
  \/ body.evaluator_url = ""
  \/ body.target_url = ""
  \/ Falsy(body.predicted_score)
  \/ body.predicted_grade = ""

\* the row the INSERT INTO evaluation_predictions binds
PredictionRow(id, body) ==
  [ id               |-> id,
    evaluator_url    |-> body.evaluator_url,
    target_url       |-> body.target_url,
    predicted_score  |-> body.predicted_score[1],
    predicted_grade  |-> body.predicted_grade,
    confidence_level |-> body.confidence_level ]

\* the whole handler: validation, one INSERT, the response
AgentPrediction(r, body) ==
  /\ NextToArrive(r)
  /\ LET arrived == [ IdleRequest EXCEPT !.handler = "prediction", !.body = body,
                                         !.pc = "done" ]
     IN  IF PredictionMissingFields(body)
         THEN /\ req' = [ req EXCEPT ![r] = [ arrived EXCEPT !.status = 400 ] ]
              /\ UNCHANGED evaluation_predictions
         ELSE /\ evaluation_predictions' =
                   Append(evaluation_predictions,
                          PredictionRow(Len(evaluation_predictions) + 1, body))
              /\ req' = [ req EXCEPT ![r] = [ arrived EXCEPT !.status = 200 ] ]
  /\ UNCHANGED <<evaluators, prediction_discrepancies,
                 evaluator_reputation_history, agent_evaluations, refsNotNull,
                 overlapped>>
  /\ UNCHANGED trustVars
  /\ UNCHANGED <<gatewayVars, sample>>

(* ------------------------- handleAgentEvaluation ----------------------- *)

\* if (!body.evaluator_url || !body.target_url || !body.score || !body.grade)
EvaluationMissingFields(body) ==
  \/ body.evaluator_url = ""
  \/ body.target_url = ""
  \/ Falsy(body.score)
  \/ body.grade = ""

\* the row the INSERT INTO agent_evaluations binds
EvaluationRow(id, body) ==
  [ id            |-> id,
    evaluator_url |-> body.evaluator_url,
    target_url    |-> body.target_url,
    score         |-> body.score[1],
    grade         |-> body.grade ]

\* the whole handler: validation, one INSERT, the response (the SELECTs
\* around the INSERT feed only the feedback text of the response)
AgentEvaluation(r, body) ==
  /\ NextToArrive(r)
  /\ LET arrived == [ IdleRequest EXCEPT !.handler = "evaluation", !.body = body,
                                         !.pc = "done" ]
     IN  IF EvaluationMissingFields(body)
         THEN /\ req' = [ req EXCEPT ![r] = [ arrived EXCEPT !.status = 400 ] ]
              /\ UNCHANGED agent_evaluations
         ELSE /\ agent_evaluations' =
                   Append(agent_evaluations,
                          EvaluationRow(Len(agent_evaluations) + 1, body))
              /\ req' = [ req EXCEPT ![r] = [ arrived EXCEPT !.status = 200 ] ]
  /\ UNCHANGED <<evaluators, prediction_discrepancies,
                 evaluator_reputation_history, evaluation_predictions,
                 refsNotNull, overlapped>>
  /\ UNCHANGED trustVars
  /\ UNCHANGED <<gatewayVars, sample>>

(* ----------------------------- lib/testing ----------------------------- *)

\* getEndpointTests(env, endpoint.id, 100): the window of the most recent
\* tests, scaled from 100 rows so that a behaviour can fill it
TestWindowLimit == 2

\* what testEndpoint can measure: the manifest answered 200 with JSON (fast
\* or slowly), 200 without JSON, 200 within the same millisecond, or the
\* request failed
TestOutcomes ==
  { [is_successful |-> TRUE,  response_time_ms |-> 150,  response_sample |-> TRUE],
    [is_successful |-> TRUE,  response_time_ms |-> 2600, response_sample |-> TRUE],
    [is_successful |-> TRUE,  response_time_ms |-> 600,  response_sample |-> FALSE],
    [is_successful |-> TRUE,  response_time_ms |-> 0,    response_sample |-> TRUE],
    [is_successful |-> FALSE, response_time_ms |-> 2500, response_sample |-> FALSE] }

\* the outcomes tried on an endpoint while scores are only computed: all of
\* them on endpoint 1, endpoint 2 is never tested
OutcomesOf(e) ==
  IF e = 1 THEN TestOutcomes ELSE {}

\* the outcomes and the clock readings tried while trust scores are saved
SaveOutcomesOf(e) ==
  IF e = 1 THEN { o \in TestOutcomes : o.response_time_ms = 150 }
  ELSE { o \in TestOutcomes : ~o.is_successful }

SaveTimes == { Epoch + 5 * 86400 }

\* the clock readings of a behaviour, in seconds
Times ==
  { Epoch, Epoch + 5 * 86400, Epoch + 15 * 86400, Epoch + 35 * 86400 - 3600 }

\* the outcomes of the live test of a verify-live request: the manifest
\* answered 200 with JSON in 150 ms, or the request failed
LiveOutcomes ==
  { o \in TestOutcomes : o.response_time_ms \in {150, 2500} }

\* the EndpointTest testEndpoint returns: nothing is written
testEndpoint(endpointId, clock, outcome) ==
  [ endpoint_id      |-> endpointId,
    test_timestamp   |-> clock,
    response_time_ms |-> outcome.response_time_ms,
    is_successful    |-> outcome.is_successful,
    response_sample  |-> outcome.response_sample ]

\* the row saveTestResult inserts for what testEndpoint returned:
\* response_time_ms || null, is_successful ? 1 : 0, response_sample || null
TestRow(endpointId, clock, outcome) ==
  [ endpoint_id      |-> endpointId,
    test_timestamp   |-> clock,
    response_time_ms |-> IF outcome.response_time_ms = 0 THEN NULL
                         ELSE Some(outcome.response_time_ms),
    is_successful    |-> outcome.is_successful,
    response_sample  |-> outcome.response_sample ]


\* the orders ORDER BY test_timestamp DESC may return the rows idx in: rows
\* of equal timestamp come in either order
RECURSIVE OrderByTimestampDesc(_, _)
OrderByTimestampDesc(rows, idx) ==
  IF idx = {} THEN { <<>> }
  ELSE LET newest == { i \in idx :
                         \A k \in idx : rows[i].test_timestamp >= rows[k].test_timestamp }
       IN  UNION { { <<i>> \o o : o \in OrderByTimestampDesc(rows, idx \ {i}) } :
                   i \in newest }

\* variant of getEndpointTests: ORDER BY test_timestamp ASC, the oldest
\* tests first
getEndpointTests_Ascending(endpointId, limit) ==
  LET hits == { i \in DOMAIN endpoint_tests : endpoint_tests[i].endpoint_id = endpointId }
      n    == IF Cardinality(hits) <= limit THEN Cardinality(hits) ELSE limit
      m    == Cardinality(hits)
  IN  { [k \in 1..n |-> endpoint_tests[o[m + 1 - k]]] :
          o \in OrderByTimestampDesc(endpoint_tests, hits) }

\* SELECT * FROM endpoint_tests WHERE endpoint_id = ?
\* ORDER BY test_timestamp DESC LIMIT ?: the result sets the query may return
getEndpointTests(endpointId, limit) ==
  LET hits == { i \in DOMAIN endpoint_tests : endpoint_tests[i].endpoint_id = endpointId }
      n    == IF Cardinality(hits) <= limit THEN Cardinality(hits) ELSE limit
  IN  { [k \in 1..n |-> endpoint_tests[o[k]]] : o \in OrderByTimestampDesc(endpoint_tests, hits) }

\* tests.filter(t => t.is_successful)
SuccessfulTests(tests) == { i \in DOMAIN tests : tests[i].is_successful }

\* (successful / tests.length) * 100
calculateUptime(tests) ==
  IF Len(tests) = 0 THEN Int2Frac(0)
  ELSE Frac(100 * Cardinality(SuccessfulTests(tests)), Len(tests))

\* tests.filter(t => t.is_successful && t.response_time_ms): a latency
\* that is NULL or 0 is falsy
TimedTests(tests) ==
  { i \in DOMAIN tests : /\ tests[i].is_successful
                         /\ tests[i].response_time_ms # NULL
                         /\ tests[i].response_time_ms[1] # 0 }

RECURSIVE SumLatency(_, _)
SumLatency(tests, idx) ==
  IF idx = {} THEN 0
  ELSE LET i == CHOOSE k \in idx : TRUE
       IN  tests[i].response_time_ms[1] + SumLatency(tests, idx \ {i})

\* variant of calculateAvgResponseTime: a missing latency counts as 0 ms of
\* a successful test
calculateAvgResponseTime_MissingAsZero(tests) ==
  IF SuccessfulTests(tests) = {} THEN Int2Frac(0)
  ELSE Frac(SumLatency(tests, TimedTests(tests)), Cardinality(SuccessfulTests(tests)))

\* total / successfulTests.length, 0 without a timed successful test
calculateAvgResponseTime(tests) ==
  IF TimedTests(tests) = {} THEN Int2Frac(0)
  ELSE Frac(SumLatency(tests, TimedTests(tests)), Cardinality(TimedTests(tests)))

(* --------------------------- lib/trust-score --------------------------- *)

\* lo + ((x - from) / width) * gain
Segment(lo, x, from, width, gain) ==
  Frac(lo * width * x[2] + (x[1] - from * x[2]) * gain, width * x[2])

\* variant of calculateUptimeScore: the band from 95 starts at 80 instead
\* of 85
calculateUptimeScore_BandStartsLower(uptimePercent) ==
  IF FracGeqInt(uptimePercent, 99) THEN Segment(95, uptimePercent, 99, 1, 5)
  ELSE IF FracGeqInt(uptimePercent, 95) THEN Segment(80, uptimePercent, 95, 4, 10)
  ELSE IF FracGeqInt(uptimePercent, 90) THEN Segment(70, uptimePercent, 90, 5, 15)
  ELSE IF FracGeqInt(uptimePercent, 80) THEN Segment(50, uptimePercent, 80, 10, 20)
  ELSE Segment(0, uptimePercent, 0, 80, 50)

calculateUptimeScore(uptimePercent) ==
  IF FracGeqInt(uptimePercent, 99) THEN Segment(95, uptimePercent, 99, 1, 5)
  ELSE IF FracGeqInt(uptimePercent, 95) THEN Segment(85, uptimePercent, 95, 4, 10)
  ELSE IF FracGeqInt(uptimePercent, 90) THEN Segment(70, uptimePercent, 90, 5, 15)
  ELSE IF FracGeqInt(uptimePercent, 80) THEN Segment(50, uptimePercent, 80, 10, 20)
  ELSE Segment(0, uptimePercent, 0, 80, 50)

\* lo + ((upTo - x) / width) * gain
SegmentDown(lo, x, upTo, width, gain) ==
  Frac(lo * width * x[2] + (upTo * x[2] - x[1]) * gain, width * x[2])

\* variant of calculateSpeedScore: the last band without Math.max(0, ...)
calculateSpeedScore_NoFloor(avgResponseTimeMs) ==
  IF FracLessInt(avgResponseTimeMs, 200) THEN SegmentDown(95, avgResponseTimeMs, 200, 200, 5)
  ELSE IF FracLessInt(avgResponseTimeMs, 500) THEN SegmentDown(85, avgResponseTimeMs, 500, 300, 10)
  ELSE IF FracLessInt(avgResponseTimeMs, 1000) THEN SegmentDown(70, avgResponseTimeMs, 1000, 500, 15)
  ELSE IF FracLessInt(avgResponseTimeMs, 2000) THEN SegmentDown(50, avgResponseTimeMs, 2000, 1000, 20)
  ELSE FracSub(Int2Frac(50),
               FracMul(FracDivInt(FracSub(avgResponseTimeMs, Int2Frac(2000)), 2000),
                       Int2Frac(50)))

calculateSpeedScore(avgResponseTimeMs) ==
  IF FracLessInt(avgResponseTimeMs, 200) THEN SegmentDown(95, avgResponseTimeMs, 200, 200, 5)
  ELSE IF FracLessInt(avgResponseTimeMs, 500) THEN SegmentDown(85, avgResponseTimeMs, 500, 300, 10)
  ELSE IF FracLessInt(avgResponseTimeMs, 1000) THEN SegmentDown(70, avgResponseTimeMs, 1000, 500, 15)
  ELSE IF FracLessInt(avgResponseTimeMs, 2000) THEN SegmentDown(50, avgResponseTimeMs, 2000, 1000, 20)
  ELSE FracMax(Int2Frac(0),
               FracSub(Int2Frac(50),
                       FracMul(FracDivInt(FracSub(avgResponseTimeMs, Int2Frac(2000)), 2000),
                               Int2Frac(50))))

\* tests.filter(t => t.is_successful && t.response_sample)
ValidResponses(tests) ==
  { i \in DOMAIN tests : tests[i].is_successful /\ tests[i].response_sample }

\* variant of calculateAccuracyScore: the valid responses as a share of the
\* successful tests
calculateAccuracyScore_OfSuccessfulTests(tests) ==
  IF SuccessfulTests(tests) = {} THEN Int2Frac(0)
  ELSE LET accuracyPercent == Frac(100 * Cardinality(ValidResponses(tests)),
                                   Cardinality(SuccessfulTests(tests)))
       IN  IF FracGeqInt(accuracyPercent, 95) THEN Segment(90, accuracyPercent, 95, 5, 10)
           ELSE IF FracGeqInt(accuracyPercent, 85) THEN Segment(75, accuracyPercent, 85, 10, 15)
           ELSE IF FracGeqInt(accuracyPercent, 70) THEN Segment(55, accuracyPercent, 70, 15, 20)
           ELSE Segment(0, accuracyPercent, 0, 70, 55)

calculateAccuracyScore(tests) ==
  IF Len(tests) = 0 THEN Int2Frac(0)
  ELSE LET accuracyPercent == Frac(100 * Cardinality(ValidResponses(tests)), Len(tests))
       IN  IF FracGeqInt(accuracyPercent, 95) THEN Segment(90, accuracyPercent, 95, 5, 10)
           ELSE IF FracGeqInt(accuracyPercent, 85) THEN Segment(75, accuracyPercent, 85, 10, 15)
           ELSE IF FracGeqInt(accuracyPercent, 70) THEN Segment(55, accuracyPercent, 70, 15, 20)
           ELSE Segment(0, accuracyPercent, 0, 70, 55)

SecondsPerDay == 86400

\* variant of calculateAgeScore: firstTestedTimestamp - now, the operands of
\* the age swapped
calculateAgeScore_OperandsSwapped(firstTestedTimestamp, clock) ==
  LET ageInSeconds == firstTestedTimestamp - clock
      ageInDays    == Frac(ageInSeconds, SecondsPerDay)
  IN  IF FracGeqInt(ageInDays, 30)
        THEN FracAdd(Int2Frac(95),
                     FracMin(Int2Frac(5), FracDivInt(FracSub(ageInDays, Int2Frac(30)), 30)))
      ELSE IF FracGeqInt(ageInDays, 14) THEN Segment(80, ageInDays, 14, 16, 15)
      ELSE IF FracGeqInt(ageInDays, 7) THEN Segment(60, ageInDays, 7, 7, 20)
      ELSE IF FracGeqInt(ageInDays, 3) THEN Segment(40, ageInDays, 3, 4, 20)
      ELSE Segment(0, ageInDays, 0, 3, 40)

\* the clock is read inside the function: clock is Math.floor(Date.now()/1000)
calculateAgeScore(firstTestedTimestamp, clock) ==
  LET ageInSeconds == clock - firstTestedTimestamp
      ageInDays    == Frac(ageInSeconds, SecondsPerDay)
  IN  IF FracGeqInt(ageInDays, 30)
        THEN FracAdd(Int2Frac(95),
                     FracMin(Int2Frac(5), FracDivInt(FracSub(ageInDays, Int2Frac(30)), 30)))
      ELSE IF FracGeqInt(ageInDays, 14) THEN Segment(80, ageInDays, 14, 16, 15)
      ELSE IF FracGeqInt(ageInDays, 7) THEN Segment(60, ageInDays, 7, 7, 20)
      ELSE IF FracGeqInt(ageInDays, 3) THEN Segment(40, ageInDays, 3, 4, 20)
      ELSE Segment(0, ageInDays, 0, 3, 40)

\* variant of calculateOverallScore: the age weight is 0.20, the weights sum
\* to 1.10
calculateOverallScore_AgeWeightDoubled(uptimeScore, speedScore, accuracyScore, ageScore) ==
  LET score == FracAdd(FracAdd(FracMul(uptimeScore, <<7, 20>>),
                               FracMul(speedScore, <<1, 4>>)),
                       FracAdd(FracMul(accuracyScore, <<3, 10>>),
                               FracMul(ageScore, <<1, 5>>)))
  IN  RoundToTenth(score)

\* variant of calculateOverallScore: Math.round(score) instead of
\* Math.round(score * 10) / 10
calculateOverallScore_RoundsToInteger(uptimeScore, speedScore, accuracyScore, ageScore) ==
  LET score == FracAdd(FracAdd(FracMul(uptimeScore, <<7, 20>>),
                               FracMul(speedScore, <<1, 4>>)),
                       FracAdd(FracMul(accuracyScore, <<3, 10>>),
                               FracMul(ageScore, <<1, 10>>)))
  IN  Int2Frac(MathRound(score))

\* uptime * 0.35 + speed * 0.25 + accuracy * 0.30 + age * 0.10, one decimal
calculateOverallScore(uptimeScore, speedScore, accuracyScore, ageScore) ==
  LET score == FracAdd(FracAdd(FracMul(uptimeScore, <<7, 20>>),
                               FracMul(speedScore, <<1, 4>>)),
                       FracAdd(FracMul(accuracyScore, <<3, 10>>),
                               FracMul(ageScore, <<1, 10>>)))
  IN  RoundToTenth(score)

\* variant of calculateGrade: the thresholds compared with > instead of >=
calculateGrade_StrictThresholds(score) ==
  IF FracLess(Int2Frac(98), score) THEN "A+"
  ELSE IF FracLess(Int2Frac(93), score) THEN "A"
  ELSE IF FracLess(Int2Frac(90), score) THEN "A-"
  ELSE IF FracLess(Int2Frac(87), score) THEN "B+"
  ELSE IF FracLess(Int2Frac(83), score) THEN "B"
  ELSE IF FracLess(Int2Frac(80), score) THEN "B-"
  ELSE IF FracLess(Int2Frac(77), score) THEN "C+"
  ELSE IF FracLess(Int2Frac(73), score) THEN "C"
  ELSE IF FracLess(Int2Frac(70), score) THEN "C-"
  ELSE IF FracLess(Int2Frac(60), score) THEN "D"
  ELSE "F"

calculateGrade(score) ==
  IF FracGeqInt(score, 98) THEN "A+"
  ELSE IF FracGeqInt(score, 93) THEN "A"
  ELSE IF FracGeqInt(score, 90) THEN "A-"
  ELSE IF FracGeqInt(score, 87) THEN "B+"
  ELSE IF FracGeqInt(score, 83) THEN "B"
  ELSE IF FracGeqInt(score, 80) THEN "B-"
  ELSE IF FracGeqInt(score, 77) THEN "C+"
  ELSE IF FracGeqInt(score, 73) THEN "C"
  ELSE IF FracGeqInt(score, 70) THEN "C-"
  ELSE IF FracGeqInt(score, 60) THEN "D"
  ELSE "F"

calculateRecommendation(score) ==
  IF FracGeqInt(score, 85) THEN "TRUSTED"
  ELSE IF FracGeqInt(score, 65) THEN "CAUTION"
  ELSE "AVOID"

\* variant of EmptyTrustScore: no early return, the scores of an empty window
\* come from the scoring functions, and an average of 0 ms scores 100
EmptyTrustScore_FromScoringFunctions(endpointId, clock) ==
  LET speedScore   == calculateSpeedScore(calculateAvgResponseTime(<<>>))
      overallScore == calculateOverallScore(calculateUptimeScore(calculateUptime(<<>>)),
                                            speedScore, calculateAccuracyScore(<<>>),
                                            Int2Frac(0))
  IN  [ endpoint_id          |-> endpointId,
        uptime_score         |-> Int2Frac(0),
        speed_score          |-> RoundToTenth(speedScore),
        accuracy_score       |-> Int2Frac(0),
        age_score            |-> Int2Frac(0),
        overall_score        |-> overallScore,
        grade                |-> calculateGrade(overallScore),
        recommendation       |-> calculateRecommendation(overallScore),
        total_tests          |-> 0,
        successful_tests     |-> 0,
        failed_tests         |-> 0,
        avg_response_time_ms |-> 0,
        first_tested_at      |-> NULL,
        last_calculated_at   |-> clock ]

\* the TrustScore returned for an empty window
EmptyTrustScore(endpointId, clock) ==
  [ endpoint_id          |-> endpointId,
    uptime_score         |-> Int2Frac(0),
    speed_score          |-> Int2Frac(0),
    accuracy_score       |-> Int2Frac(0),
    age_score            |-> Int2Frac(0),
    overall_score        |-> Int2Frac(0),
    grade                |-> "F",
    recommendation       |-> "AVOID",
    total_tests          |-> 0,
    successful_tests     |-> 0,
    failed_tests         |-> 0,
    avg_response_time_ms |-> 0,
    first_tested_at      |-> NULL,
    last_calculated_at   |-> clock ]

\* calculateTrustScoreForEndpoint after the window has been read
TrustScoreOf(endpointId, tests, clock) ==
  IF Len(tests) = 0 THEN EmptyTrustScore(endpointId, clock)
  ELSE
    LET uptimePercent   == calculateUptime(tests)
        avgResponseTime == calculateAvgResponseTime(tests)
        firstTest       == tests[Len(tests)]
        uptimeScore     == calculateUptimeScore(uptimePercent)
        speedScore      == calculateSpeedScore(avgResponseTime)
        accuracyScore   == calculateAccuracyScore(tests)
        ageScore        == calculateAgeScore(firstTest.test_timestamp, clock)
        overallScore    == calculateOverallScore(uptimeScore, speedScore,
                                                 accuracyScore, ageScore)
        successfulTests == Cardinality(SuccessfulTests(tests))
    IN  [ endpoint_id          |-> endpointId,
          uptime_score         |-> RoundToTenth(uptimeScore),
          speed_score          |-> RoundToTenth(speedScore),
          accuracy_score       |-> RoundToTenth(accuracyScore),
          age_score            |-> RoundToTenth(ageScore),
          overall_score        |-> overallScore,
          grade                |-> calculateGrade(overallScore),
          recommendation       |-> calculateRecommendation(overallScore),
          total_tests          |-> Len(tests),
          successful_tests     |-> successfulTests,
          failed_tests         |-> Len(tests) - successfulTests,
          avg_response_time_ms |-> MathRound(avgResponseTime),
          first_tested_at      |-> Some(firstTest.test_timestamp),
          last_calculated_at   |-> clock ]

(* ------------------------ trust-score operations ----------------------- *)

\* computations are numbered in the order they start
NextJob(j) == job[j].pc = "idle" /\ \A k \in Jobs : k < j => job[k].pc # "idle"

\* no verify-live handler is between its computation and its response: the
\* handler runs that stretch to completion, no other step falls into it
NoResponseInProgress == verified = NULL

\* Date.now() moves forward to t between two steps
Tick(t) ==
  /\ NoResponseInProgress
  /\ t > now
  /\ now' = t
  /\ UNCHANGED <<endpoint_tests, trust_scores, job, verified>>
  /\ UNCHANGED reputationVars
  /\ UNCHANGED <<gatewayVars, sample>>

\* testAllEndpoints on one endpoint: testEndpoint, then saveTestResult with
\* its INSERT INTO endpoint_tests and UPDATE endpoints SET last_checked_at
RecordTest(e, outcome) ==
  /\ NoResponseInProgress
  /\ Len(endpoint_tests) < MaxTests
  /\ endpoint_tests' = Append(endpoint_tests, TestRow(e, now, outcome))
  /\ endpoints' = [ endpoints EXCEPT ![e].last_checked_at = Some(now) ]
  /\ UNCHANGED <<trust_scores, now, job, verified>>
  /\ UNCHANGED reputationVars
  /\ UNCHANGED <<headers, agent_health_reports, runs, sample>>

\* handleVerifyLive: testEndpoint, whose result goes into the response only,
\* then calculateTrustScoreForEndpoint on an endpoint that may never have
\* been tested; neither the test nor the score is saved
VerifyLive(e, outcome) ==
  /\ NoResponseInProgress
  /\ \E tests \in getEndpointTests(e, TestWindowLimit) :
       verified' = Some([ endpoint_id |-> e, tests |-> tests,
                          score |-> TrustScoreOf(e, tests, now),
                          test_result |-> testEndpoint(e, now, outcome) ])
  /\ UNCHANGED <<endpoint_tests, trust_scores, now, job>>
  /\ UNCHANGED reputationVars
  /\ UNCHANGED <<gatewayVars, sample>>

\* handleVerifyLive returns the response with the score
VerifyRespond ==
  /\ verified # NULL
  /\ verified' = NULL
  /\ UNCHANGED <<endpoint_tests, trust_scores, now, job>>
  /\ UNCHANGED reputationVars
  /\ UNCHANGED <<gatewayVars, sample>>

\* calculateAllTrustScores reaches endpoint e, which the join found to have
\* tests, and calls calculateTrustScoreForEndpoint
Recalculate(j, e) ==
  /\ NoResponseInProgress
  /\ NextJob(j)
  /\ \E i \in DOMAIN endpoint_tests : endpoint_tests[i].endpoint_id = e
  /\ \E tests \in getEndpointTests(e, TestWindowLimit) :
       job' = [job EXCEPT ![j] = [ pc |-> "computed", endpoint_id |-> e,
                                   tests |-> tests, at |-> now,
                                   score |-> Some(TrustScoreOf(e, tests, now)) ]]
  /\ UNCHANGED <<endpoint_tests, trust_scores, now, verified>>
  /\ UNCHANGED reputationVars
  /\ UNCHANGED <<gatewayVars, sample>>

\* SELECT id FROM trust_scores WHERE endpoint_id = ?
ExistingTrustScore(endpointId) ==
  { i \in DOMAIN trust_scores : trust_scores[i].endpoint_id = endpointId }

\* handleTrustScore on a known endpoint: SELECT * FROM trust_scores WHERE
\* endpoint_id = ? .first(); 404 'Trust score not yet calculated' without a
\* row, else the stored score
handleTrustScore(endpointId) ==
  IF ExistingTrustScore(endpointId) = {}
    THEN [ status |-> 404, trust_score |-> NULL ]
    ELSE [ status |-> 200,
           trust_score |-> Some(trust_scores[CHOOSE i \in ExistingTrustScore(endpointId) : TRUE]) ]

\* saveTrustScore, first statement
SaveSelect(j) ==
  /\ NoResponseInProgress
  /\ job[j].pc = "computed"
  /\ job' = [job EXCEPT ![j].pc =
               IF ExistingTrustScore(job[j].endpoint_id) # {} THEN "update" ELSE "insert"]
  /\ UNCHANGED <<endpoint_tests, trust_scores, now, verified>>
  /\ UNCHANGED reputationVars
  /\ UNCHANGED <<gatewayVars, sample>>

\* the columns saveTrustScore binds: first_tested_at || null
TrustScoreRow(trustScore) ==
  [ trustScore EXCEPT !.first_tested_at =
      IF trustScore.first_tested_at = NULL \/ trustScore.first_tested_at[1] = 0
        THEN NULL ELSE trustScore.first_tested_at ]

\* variant of InsertTrustScore: endpoint_id without its UNIQUE constraint
InsertTrustScore_NoUnique(trustScore) == Append(trust_scores, TrustScoreRow(trustScore))

\* INSERT INTO trust_scores: endpoint_id is UNIQUE, a second row for the
\* endpoint raises, and saveTrustScore catches and logs
InsertTrustScore(trustScore) ==
  IF ExistingTrustScore(trustScore.endpoint_id) # {} THEN trust_scores
  ELSE Append(trust_scores, TrustScoreRow(trustScore))

\* UPDATE trust_scores SET ... WHERE endpoint_id = ?
UpdateTrustScore(trustScore) ==
  [ i \in DOMAIN trust_scores |->
      IF trust_scores[i].endpoint_id = trustScore.endpoint_id
        THEN TrustScoreRow(trustScore) ELSE trust_scores[i] ]

\* saveTrustScore, second statement; a job ends "failed" when the statement
\* raised and the catch block logged the error
SaveWrite(j) ==
  /\ NoResponseInProgress
  /\ job[j].pc \in {"update", "insert"}
  /\ trust_scores' = IF job[j].pc = "update" THEN UpdateTrustScore(job[j].score[1])
                                              ELSE InsertTrustScore(job[j].score[1])
  /\ job' = [job EXCEPT ![j].pc =
               IF job[j].pc = "insert" /\ ExistingTrustScore(job[j].endpoint_id) # {}
                 THEN "failed" ELSE "done"]
  /\ UNCHANGED <<endpoint_tests, now, verified>>
  /\ UNCHANGED reputationVars
  /\ UNCHANGED <<gatewayVars, sample>>

(* --------------------------- request gateway --------------------------- *)

\* variant of isInternalRequest: a request without the header passes
isInternalRequest_MissingKeyAccepted(hdrs) ==
  hdrs.api_key = NULL \/ hdrs.api_key = INTERNAL_API_KEY

\* request.headers.get('X-Internal-API-Key') === env.INTERNAL_API_KEY
isInternalRequest(hdrs) == hdrs.api_key = INTERNAL_API_KEY

\* request r arrives on a route and is answered within the step
Answered(r, route, code) ==
  [ req EXCEPT ![r] = [ IdleRequest EXCEPT !.handler = route, !.pc = "done",
                                           !.status = code ] ]

\* return new Response('Unauthorized', { status: 401 })
Unauthorized(r, route) ==
  /\ NextToArrive(r)
  /\ req' = Answered(r, route, 401)
  /\ UNCHANGED <<evaluators, prediction_discrepancies,
                 evaluator_reputation_history, evaluation_predictions,
                 agent_evaluations, refsNotNull, overlapped>>
  /\ UNCHANGED trustVars
  /\ UNCHANGED <<gatewayVars, sample>>

\* what the discovery sources return once duplicates are removed: the urls
\* in the order they are saved
Discoveries == { <<>>, <<"u1">>, <<"u3", "u1">> }

\* saveDiscoveredEndpoints: for each discovery SELECT id FROM endpoints WHERE
\* url = ?, then UPDATE endpoints SET last_seen_at = ?, is_active = 1 or
\* INSERT INTO endpoints
RECURSIVE saveDiscoveredEndpoints(_, _, _)
saveDiscoveredEndpoints(table, discoveries, clock) ==
  IF discoveries = <<>> THEN table
  ELSE LET url      == Head(discoveries)
           existing == { i \in DOMAIN table : table[i].url = url }
           saved    == IF existing # {}
                         THEN [ i \in DOMAIN table |->
                                  IF i \in existing
                                    THEN [ table[i] EXCEPT !.last_seen_at = clock,
                                                           !.is_active = 1 ]
                                    ELSE table[i] ]
                         ELSE Append(table, EndpointRow(Len(table) + 1, url, clock,
                                                        clock, "discovery"))
       IN  saveDiscoveredEndpoints(saved, Tail(discoveries), clock)

\* POST /internal/trigger-discovery with the key: runDiscovery
TriggerDiscovery(r, discoveries) ==
  /\ NextToArrive(r)
  /\ runs' = runs \cup { <<"runDiscovery", r>> }
  /\ endpoints' = saveDiscoveredEndpoints(endpoints, discoveries, now)
  /\ req' = Answered(r, "/internal/trigger-discovery", 200)
  /\ UNCHANGED <<evaluators, prediction_discrepancies,
                 evaluator_reputation_history, evaluation_predictions,
                 agent_evaluations, refsNotNull, overlapped>>
  /\ UNCHANGED trustVars
  /\ UNCHANGED <<headers, agent_health_reports, sample>>

\* the endpoints testAllEndpoints selects: is_active = 1 AND (last_checked_at
\* IS NULL OR last_checked_at < now - 30 * 60); LIMIT 50 is not reached
DueEndpoints ==
  { e \in DOMAIN endpoints :
      /\ endpoints[e].is_active = 1
      /\ \/ endpoints[e].last_checked_at = NULL
         \/ endpoints[e].last_checked_at[1] < now - 30 * 60 }

\* the rows saveTestResult inserts for the endpoints ids
RECURSIVE TestRows(_, _, _)
TestRows(ids, clock, outcome) ==
  IF ids = {} THEN <<>>
  ELSE LET e == CHOOSE i \in ids : \A k \in ids : i <= k
       IN  <<TestRow(e, clock, outcome)>> \o TestRows(ids \ {e}, clock, outcome)

\* POST /internal/trigger-testing with the key: testAllEndpoints(env, 50),
\* every selected endpoint answering alike
TriggerTesting(r, outcome) ==
  /\ NextToArrive(r)
  /\ runs' = runs \cup { <<"testAllEndpoints", r>> }
  /\ endpoint_tests' = endpoint_tests \o TestRows(DueEndpoints, now, outcome)
  /\ endpoints' = [ e \in DOMAIN endpoints |->
                      IF e \in DueEndpoints
                        THEN [ endpoints[e] EXCEPT !.last_checked_at = Some(now) ]
                        ELSE endpoints[e] ]
  /\ req' = Answered(r, "/internal/trigger-testing", 200)
  /\ UNCHANGED <<evaluators, prediction_discrepancies,
                 evaluator_reputation_history, evaluation_predictions,
                 agent_evaluations, refsNotNull, overlapped>>
  /\ UNCHANGED <<trust_scores, now, job, verified>>
  /\ UNCHANGED <<headers, agent_health_reports, sample>>

\* SELECT DISTINCT e.* FROM endpoints e INNER JOIN endpoint_tests t
\* ON e.id = t.endpoint_id WHERE e.is_active = 1
TestedEndpoints ==
  { e \in DOMAIN endpoints :
      /\ endpoints[e].is_active = 1
      /\ \E i \in DOMAIN endpoint_tests : endpoint_tests[i].endpoint_id = e }

\* saveTrustScore on the table: SELECT id FROM trust_scores WHERE
\* endpoint_id = ?, then UPDATE or INSERT
saveTrustScore(table, trustScore) ==
  IF \E i \in DOMAIN table : table[i].endpoint_id = trustScore.endpoint_id
    THEN [ i \in DOMAIN table |->
             IF table[i].endpoint_id = trustScore.endpoint_id
               THEN TrustScoreRow(trustScore) ELSE table[i] ]
    ELSE Append(table, TrustScoreRow(trustScore))

\* calculateAllTrustScores: calculateTrustScoreForEndpoint and saveTrustScore
\* for each endpoint of ids in turn; the tables it may leave
RECURSIVE calculateAllTrustScores(_, _)
calculateAllTrustScores(ids, table) ==
  IF ids = {} THEN { table }
  ELSE LET e == CHOOSE i \in ids : \A k \in ids : i <= k
       IN  UNION { calculateAllTrustScores(ids \ {e},
                     saveTrustScore(table, TrustScoreOf(e, tests, now))) :
                   tests \in getEndpointTests(e, TestWindowLimit) }

\* POST /internal/trigger-trust-score with the key
TriggerTrustScore(r) ==
  /\ NextToArrive(r)
  /\ runs' = runs \cup { <<"calculateAllTrustScores", r>> }
  /\ trust_scores' \in calculateAllTrustScores(TestedEndpoints, trust_scores)
  /\ req' = Answered(r, "/internal/trigger-trust-score", 200)
  /\ UNCHANGED <<evaluators, prediction_discrepancies,
                 evaluator_reputation_history, evaluation_predictions,
                 agent_evaluations, refsNotNull, overlapped>>
  /\ UNCHANGED <<endpoint_tests, now, job, verified>>
  /\ UNCHANGED <<headers, endpoints, agent_health_reports, sample>>

\* request bodies of POST /internal/agent-report: metrics is present or not
HBody(u, name, metrics, status) ==
  [ agent_url |-> u, agent_name |-> name, metrics |-> metrics,
    health_status |-> status ]

HealthReportBodies ==
  { HBody("u1", "agent", TRUE, "GOOD"),
    HBody("u9", "agent", TRUE, "POOR"),
    HBody("u1", "agent", FALSE, "GOOD") }

\* if (!body.agent_url || !body.agent_name || !body.metrics ||
\*     !body.health_status)
HealthReportMissingFields(body) ==
  \/ body.agent_url = ""
  \/ body.agent_name = ""
  \/ ~body.metrics
  \/ body.health_status = ""

\* the row INSERT INTO agent_health_reports binds: endpoint?.id || null from
\* SELECT id FROM endpoints WHERE url = ?
HealthReportRow(id, body) ==
  LET known == { e \in DOMAIN endpoints : endpoints[e].url = body.agent_url }
  IN  [ id            |-> id,
        agent_url     |-> body.agent_url,
        agent_name    |-> body.agent_name,
        health_status |-> body.health_status,
        endpoint_id   |-> IF known = {} THEN NULL
                          ELSE Some(CHOOSE e \in known : TRUE) ]

\* handleAgentHealthReport: validation, the SELECT, one INSERT, the response
AgentHealthReport(r, body) ==
  /\ NextToArrive(r)
  /\ IF HealthReportMissingFields(body)
       THEN /\ req' = Answered(r, "/internal/agent-report", 400)
            /\ UNCHANGED agent_health_reports
       ELSE /\ agent_health_reports' =
                 Append(agent_health_reports,
                        HealthReportRow(Len(agent_health_reports) + 1, body))
            /\ req' = Answered(r, "/internal/agent-report", 200)
  /\ UNCHANGED <<evaluators, prediction_discrepancies,
                 evaluator_reputation_history, evaluation_predictions,
                 agent_evaluations, refsNotNull, overlapped>>
  /\ UNCHANGED trustVars
  /\ UNCHANGED <<headers, endpoints, runs, sample>>

\* the bodies sent through the gateway: of each handler a body it stores
\* and, where the set has one, a body it rejects
GatewayDiscrepancyBodies == { b \in DiscrepancyBodies : b.absolute_error = 2 }

GatewayPredictionBodies ==
  { b \in PredictionBodies : b.predicted_score = Some(80) /\ b.confidence_level = Frac(4, 5) }

GatewayEvaluationBodies == { b \in EvaluationBodies : b.score = Some(72) }

\* fetch, the /internal/* routes: if (!isInternalRequest(request, env))
\* return 401, else the handler
PostTriggerDiscovery(r, discoveries) ==
  IF isInternalRequest(headers[r]) THEN TriggerDiscovery(r, discoveries)
  ELSE Unauthorized(r, "/internal/trigger-discovery")

PostTriggerTesting(r, outcome) ==
  IF isInternalRequest(headers[r]) THEN TriggerTesting(r, outcome)
  ELSE Unauthorized(r, "/internal/trigger-testing")

PostTriggerTrustScore(r) ==
  IF isInternalRequest(headers[r]) THEN TriggerTrustScore(r)
  ELSE Unauthorized(r, "/internal/trigger-trust-score")

PostAgentReport(r, body) ==
  IF isInternalRequest(headers[r]) THEN AgentHealthReport(r, body)
  ELSE Unauthorized(r, "/internal/agent-report")

PostAgentEvaluation(r, body) ==
  IF isInternalRequest(headers[r]) THEN AgentEvaluation(r, body)
  ELSE Unauthorized(r, "/internal/agent-evaluation")

PostAgentPrediction(r, body) ==
  IF isInternalRequest(headers[r]) THEN AgentPrediction(r, body)
  ELSE Unauthorized(r, "/internal/agent-prediction")

PostAgentDiscrepancy(r, body) ==
  IF isInternalRequest(headers[r]) THEN DiscrepancyReceive(r, body)
  ELSE Unauthorized(r, "/internal/agent-discrepancy")

(* ----------------------------- priced routes --------------------------- *)

\* the Number value NaN; the other values are fractions
NaN == <<0, 0>>

\* the characters of a StrDecimalLiteral
DigitValue(c) ==
  CASE c = "0" -> 0 [] c = "1" -> 1 [] c = "2" -> 2 [] c = "3" -> 3 [] c = "4" -> 4
    [] c = "5" -> 5 [] c = "6" -> 6 [] c = "7" -> 7 [] c = "8" -> 8 [] c = "9" -> 9

IsDigit(c) == c \in {"0", "1", "2", "3", "4", "5", "6", "7", "8", "9"}

\* the number of digits of s from position from on
DigitRun(s, from) ==
  CHOOSE n \in 0..Len(s) :
    /\ \A i \in from..(from + n - 1) : i <= Len(s) /\ IsDigit(s[i])
    /\ from + n > Len(s) \/ ~IsDigit(s[from + n])

\* the value of the n digits of s from position from on
RECURSIVE DigitsValue(_, _, _)
DigitsValue(s, from, n) ==
  IF n = 0 THEN 0
  ELSE 10 * DigitsValue(s, from, n - 1) + DigitValue(s[from + n - 1])

RECURSIVE Pow10(_)
Pow10(n) == IF n = 0 THEN 1 ELSE 10 * Pow10(n - 1)

\* JavaScript parseFloat: leading white space is skipped, then the longest
\* prefix that is a decimal literal (sign, digits, point, digits) is taken
\* and what follows it is ignored; NaN when there is no such prefix.  The
\* amounts of a behaviour carry no exponent and are not "Infinity".
parseFloat(s) ==
  LET blanks    == CHOOSE n \in 0..Len(s) :
                     /\ \A i \in 1..n : s[i] = " "
                     /\ n = Len(s) \/ s[n + 1] # " "
      start     == blanks + 1
      signed    == start <= Len(s) /\ s[start] \in {"+", "-"}
      first     == IF signed THEN start + 1 ELSE start
      whole     == DigitRun(s, first)
      point     == first + whole <= Len(s) /\ s[first + whole] = "."
      decimals  == IF point THEN DigitRun(s, first + whole + 1) ELSE 0
      magnitude == Frac(DigitsValue(s, first, whole) * Pow10(decimals)
                          + DigitsValue(s, first + whole + 1, decimals),
                        Pow10(decimals))
  IN  IF whole + decimals = 0 THEN NaN
      ELSE IF signed /\ s[start] = "-" THEN <<-magnitude[1], magnitude[2]>>
      ELSE magnitude

\* JavaScript x < y on Numbers: false when either is NaN
NumberLess(x, y) == x # NaN /\ y # NaN /\ FracLess(x, y)

\* hasValidPayment: both headers present and not empty, then
\* parseFloat(paymentAmount) < requiredAmount refuses; the proof is not
\* verified
hasValidPayment(hdrs, requiredAmount) ==
  IF \/ hdrs.payment_proof = NULL \/ hdrs.payment_proof[1] = ""
     \/ hdrs.payment_amount = NULL \/ hdrs.payment_amount[1] = <<>>
    THEN FALSE
  ELSE IF NumberLess(parseFloat(hdrs.payment_amount[1]), requiredAmount)
    THEN FALSE
  ELSE TRUE

\* the price each route passes to hasValidPayment
PriceOf(route) ==
  IF route \in {"/discover", "/trust-score", "/verify-live", "/compare"}
    THEN Frac(1, 2)
    ELSE Frac(1, 4)

\* const isInternal = isInternalRequest(request, env); if (!isInternal) {
\* const hasPayment = await hasValidPayment(request, price); ... }
PassesGate(hdrs, route) ==
  isInternalRequest(hdrs) \/ hasValidPayment(hdrs, PriceOf(route))

\* the answer to request r on a route whose handler writes nothing: 402 from
\* createPaymentRequiredResponse, or the status of the handler
AnswerPriced(r, route, code) ==
  /\ req' = Answered(r, route, IF PassesGate(headers[r], route) THEN code ELSE 402)
  /\ UNCHANGED <<evaluators, prediction_discrepancies,
                 evaluator_reputation_history, evaluation_predictions,
                 agent_evaluations, refsNotNull, overlapped>>
  /\ UNCHANGED trustVars
  /\ UNCHANGED <<gatewayVars, sample>>

\* endpoint_url of the bodies of /trust-score and /verify-live: a discovered
\* endpoint, an unknown one, none
EndpointUrlBodies == { "u1", "u3", "" }

\* endpoint_urls of the bodies of /compare
CompareBodies == { <<"u1">>, <<"u1", "u2">> }

\* SELECT * FROM endpoints WHERE url = ?
SelectEndpoint(url) == { e \in DOMAIN endpoints : endpoints[e].url = url }

\* POST /discover: handleDiscover reads endpoints and trust_scores
PostDiscover(r) ==
  /\ NextToArrive(r)
  /\ AnswerPriced(r, "/discover", 200)

\* POST /trust-score: handleTrustScore
PostTrustScore(r, url) ==
  /\ NextToArrive(r)
  /\ AnswerPriced(r, "/trust-score",
               IF url = "" THEN 400
               ELSE IF SelectEndpoint(url) = {} THEN 404
               ELSE handleTrustScore(CHOOSE e \in SelectEndpoint(url) : TRUE).status)

\* POST /verify-live: handleVerifyLive inserts the endpoint when the url is
\* not in the table, tests it and computes its score for the response
PostVerifyLive(r, url) ==
  /\ NextToArrive(r)
  /\ IF ~PassesGate(headers[r], "/verify-live")
       THEN /\ req' = Answered(r, "/verify-live", 402)
            /\ UNCHANGED endpoints
       ELSE IF url = ""
       THEN /\ req' = Answered(r, "/verify-live", 400)
            /\ UNCHANGED endpoints
       ELSE /\ req' = Answered(r, "/verify-live", 200)
            /\ endpoints' = IF SelectEndpoint(url) # {} THEN endpoints
                             ELSE Append(endpoints,
                                         EndpointRow(Len(endpoints) + 1, url, now, now,
                                                     "manual"))
  /\ UNCHANGED <<evaluators, prediction_discrepancies,
                 evaluator_reputation_history, evaluation_predictions,
                 agent_evaluations, refsNotNull, overlapped>>
  /\ UNCHANGED trustVars
  /\ UNCHANGED <<headers, agent_health_reports, runs, sample>>

\* POST /compare: handleCompare wants two to five urls
PostCompare(r, urls) ==
  /\ NextToArrive(r)
  /\ AnswerPriced(r, "/compare", IF Len(urls) < 2 \/ Len(urls) > 5 THEN 400 ELSE 200)

\* POST /evaluations: handleGetEvaluations
PostEvaluations(r) ==
  /\ NextToArrive(r)
  /\ AnswerPriced(r, "/evaluations", 200)

\* GET /marketplace: handleGetMarketplace
GetMarketplace(r) ==
  /\ NextToArrive(r)
  /\ AnswerPriced(r, "/marketplace", 200)

\* GET /leaderboard: handleGetLeaderboard
GetLeaderboard(r) ==
  /\ NextToArrive(r)
  /\ AnswerPriced(r, "/leaderboard", 200)

\* GET /evaluator/:url: handleGetEvaluatorReputation, 404 without a profile
GetEvaluator(r, url) ==
  /\ NextToArrive(r)
  /\ AnswerPriced(r, "/evaluator/", IF SelectEvaluator(url) = NULL THEN 404 ELSE 200)

(* ------------------- the scoring functions on their own ---------------- *)

\* the uptime percentages of [0, 100] on the grid
UptimePercents == { Frac(k, ScoreGrid) : k \in 0..(100 * ScoreGrid) }

\* the mean latencies of 0 to 4500 ms on the grid, and two large ones
MeanLatencies ==
  { Frac(50 * k, ScoreGrid) : k \in 0..(90 * ScoreGrid) }
    \cup { Int2Frac(10000), Int2Frac(1000000) }

\* calculateUptimeScore is applied to an uptime percentage
ApplyUptimeScore(p) ==
  /\ sample.fn \in {"none", "uptime"}
  /\ sample' = [ fn |-> "uptime", x |-> p, y |-> calculateUptimeScore(p) ]
  /\ UNCHANGED reputationVars
  /\ UNCHANGED trustVars
  /\ UNCHANGED gatewayVars

\* calculateSpeedScore is applied to a mean latency
ApplySpeedScore(l) ==
  /\ sample.fn \in {"none", "speed"}
  /\ sample' = [ fn |-> "speed", x |-> l, y |-> calculateSpeedScore(l) ]
  /\ UNCHANGED reputationVars
  /\ UNCHANGED trustVars
  /\ UNCHANGED gatewayVars

(* --------------------------- specification ----------------------------- *)

Next ==
  \/ \E u \in EvaluatorUrls : RegisterEvaluator(u)
  \/ \E r \in Requests : \E body \in DiscrepancyBodies : DiscrepancyReceive(r, body)
  \/ \E r \in Requests : DiscrepancySelect(r)
  \/ \E r \in Requests : DiscrepancyUpdate(r)
  \/ \E r \in Requests : DiscrepancyStatementFails(r)
  \/ \E r \in Requests : \E body \in PredictionBodies : AgentPrediction(r, body)
  \/ \E r \in Requests : \E body \in EvaluationBodies : AgentEvaluation(r, body)

Spec == Init /\ [][Next]_vars

\* the trust-score engine on its own: the reputation tables stay as created
InitTrust == Init /\ refsNotNull

\* the trust score as a function of the test history and the clock: tests
\* are recorded, time passes, verify-live requests compute the score
NextScore ==
  \/ \E t \in Times : Tick(t)
  \/ \E e \in Endpoints : \E outcome \in OutcomesOf(e) : RecordTest(e, outcome)
  \/ \E e \in Endpoints : \E outcome \in LiveOutcomes : VerifyLive(e, outcome)
  \/ VerifyRespond

SpecScore == InitTrust /\ [][NextScore]_vars

\* concurrent runs of calculateAllTrustScores (the cron and the manual
\* trigger) on a short test history
NextTrust ==
  \/ \E t \in SaveTimes : Tick(t)
  \/ \E e \in Endpoints : \E outcome \in SaveOutcomesOf(e) : RecordTest(e, outcome)
  \/ \E j \in Jobs, e \in Endpoints : Recalculate(j, e)
  \/ \E j \in Jobs : SaveSelect(j)
  \/ \E j \in Jobs : SaveWrite(j)

SpecTrust == InitTrust /\ [][NextTrust]_vars

\* the scoring functions applied to one argument after another
NextBands ==
  \/ \E p \in UptimePercents : ApplyUptimeScore(p)
  \/ \E l \in MeanLatencies : ApplySpeedScore(l)

SpecBands == InitTrust /\ [][NextBands]_vars

\* requests to the /internal/* routes with and without the key; the
\* prediction_discrepancies table is the one of the migrations
InitInternal ==
  /\ InitTables
  /\ ~refsNotNull
  /\ headers \in [ Requests -> InternalHeaders ]

NextInternal ==
  \/ \E u \in EvaluatorUrls : RegisterEvaluator(u)
  \/ \E r \in Requests : \E d \in Discoveries : PostTriggerDiscovery(r, d)
  \/ \E r \in Requests : \E outcome \in LiveOutcomes : PostTriggerTesting(r, outcome)
  \/ \E r \in Requests : PostTriggerTrustScore(r)
  \/ \E r \in Requests : \E body \in HealthReportBodies : PostAgentReport(r, body)
  \/ \E r \in Requests : \E body \in GatewayEvaluationBodies : PostAgentEvaluation(r, body)
  \/ \E r \in Requests : \E body \in GatewayPredictionBodies : PostAgentPrediction(r, body)
  \/ \E r \in Requests : \E body \in GatewayDiscrepancyBodies : PostAgentDiscrepancy(r, body)
  \/ \E r \in Requests : DiscrepancySelect(r)
  \/ \E r \in Requests : DiscrepancyUpdate(r)
  \/ \E r \in Requests : DiscrepancyStatementFails(r)

SpecInternal == InitInternal /\ [][NextInternal]_vars

\* requests to the priced routes with the key, with payments and without
InitPriced ==
  /\ InitTables
  /\ ~refsNotNull
  /\ headers \in [ Requests -> PricedHeaders ]

NextPriced ==
  \/ RegisterEvaluator("ev1")
  \/ \E r \in Requests : PostDiscover(r)
  \/ \E r \in Requests : \E url \in EndpointUrlBodies : PostTrustScore(r, url)
  \/ \E r \in Requests : \E url \in EndpointUrlBodies : PostVerifyLive(r, url)
  \/ \E r \in Requests : \E urls \in CompareBodies : PostCompare(r, urls)
  \/ \E r \in Requests : PostEvaluations(r)
  \/ \E r \in Requests : GetMarketplace(r)
  \/ \E r \in Requests : GetLeaderboard(r)
  \/ \E r \in Requests : \E url \in EvaluatorUrls : GetEvaluator(r, url)

SpecPriced == InitPriced /\ [][NextPriced]_vars

(* ------------------------------ properties ---------------------------- *)

TypeOK ==
  /\ refsNotNull \in BOOLEAN
  /\ overlapped \subseteq EvaluatorUrls
  /\ \A r \in Requests : req[r].pc \in {"idle", "select", "update", "done"}
  /\ now \in Times
  /\ Len(endpoint_tests) <= MaxTests
  /\ \A j \in Jobs : job[j].pc \in {"idle", "computed", "update", "insert", "done", "failed"}
  /\ \A k \in DOMAIN trust_scores : trust_scores[k].endpoint_id \in DOMAIN endpoints
  /\ \A e \in DOMAIN endpoints : endpoints[e].id = e
  /\ \A r \in Requests : headers[r] \in PricedHeaders
  /\ \A k \in DOMAIN agent_health_reports : agent_health_reports[k].id = k
  /\ \A run \in runs : run[2] \in Requests
  /\ sample.fn \in {"none", "uptime", "speed"}

\* the discrepancy requests answered 200 whose SELECT found u's profile
Applied(u) ==
  { r \in Requests : /\ req[r].handler = "discrepancy"
                     /\ req[r].pc = "done"
                     /\ req[r].status = 200
                     /\ req[r].body.evaluator_url = u
                     /\ req[r].evaluator # NULL }

Quiescent(u) == InFlight(u) = {}

RECURSIVE SumErrors(_)
SumErrors(S) ==
  IF S = {} THEN 0
  ELSE LET r == CHOOSE x \in S : TRUE
       IN  req[r].body.absolute_error + SumErrors(S \ {r})

GradeMatches(S) == Cardinality({ r \in S : req[r].body.grade_match })

\* the documented reward and penalty per accuracy category
TrustDelta(category) ==
  CASE category = "excellent" -> 10
    [] category = "good"      -> 5
    [] category = "fair"      -> -5
    [] category = "poor"      -> -15

RECURSIVE SumDeltas(_)
SumDeltas(S) ==
  IF S = {} THEN 0
  ELSE LET r == CHOOSE x \in S : TRUE
       IN  TrustDelta(req[r].body.accuracy_category) + SumDeltas(S \ {r})

Clamp(lo, hi, x) == IF x < lo THEN lo ELSE IF x > hi THEN hi ELSE x

\* the documented bands of accuracy_category on absolute_error
CategoryOf(err) ==
  IF err < 5 THEN "excellent"
  ELSE IF err < 10 THEN "good"
  ELSE IF err < 20 THEN "fair"
  ELSE "poor"

HistoryOf(i) ==
  { h \in DOMAIN evaluator_reputation_history :
      evaluator_reputation_history[h].evaluator_id = i }

Computations ==
  (IF verified = NULL THEN {}
   ELSE { [ endpoint_id |-> verified[1].endpoint_id, tests |-> verified[1].tests,
            score |-> verified[1].score ] })
    \cup { [ endpoint_id |-> job[j].endpoint_id, tests |-> job[j].tests,
             score |-> job[j].score[1] ] : j \in { k \in Jobs : job[k].score # NULL } }

\* lo <= x <= hi
Within(x, lo, hi) == FracGeqInt(x, lo) /\ ~FracLess(Int2Frac(hi), x)

\* lo <= x < hi
WithinHalfOpen(x, lo, hi) == FracGeqInt(x, lo) /\ FracLessInt(x, hi)

\* C11: every TrustScore calculateTrustScoreForEndpoint produces, whatever
\* the window, has an overall_score in [0, 100].
C11_OverallScoreRange ==
  \A c \in Computations : Within(c.score.overall_score, 0, 100)

\* a score of more than 99 was computed from a window of two tests
C11_Witness ==
  \E c \in Computations :
    /\ Len(c.tests) = 2
    /\ FracLess(Int2Frac(99), c.score.overall_score)

\* 0.35 u + 0.25 s + 0.30 a + 0.10 g of a snapshot's own sub-scores
WeightedSum(score) ==
  FracAdd(FracAdd(FracMul(score.uptime_score, <<7, 20>>),
                  FracMul(score.speed_score, <<1, 4>>)),
          FracAdd(FracMul(score.accuracy_score, <<3, 10>>),
                  FracMul(score.age_score, <<1, 10>>)))

\* |x - y|
FracDistance(x, y) == IF FracLess(x, y) THEN FracSub(y, x) ELSE FracSub(x, y)

C13_EmptyWindowScoresZero ==
  \A c \in Computations :
    Len(c.tests) = 0 =>
      /\ c.score.overall_score = Int2Frac(0)
      /\ c.score.uptime_score = Int2Frac(0)
      /\ c.score.speed_score = Int2Frac(0)
      /\ c.score.accuracy_score = Int2Frac(0)
      /\ c.score.age_score = Int2Frac(0)
      /\ c.score.grade = "F"
      /\ c.score.recommendation = "AVOID"
      /\ c.score.total_tests = 0

\* a verify-live request has scored the endpoint that was never tested
C13_Witness ==
  /\ verified # NULL
  /\ verified[1].endpoint_id = 2
  /\ Len(verified[1].tests) = 0
  /\ verified[1].score.total_tests = 0

\* the grade bands of the specification: grade, from, below, in tenths
GradeBands ==
  { <<"A+", 980, 1001>>, <<"A", 930, 980>>, <<"A-", 900, 930>>, <<"B+", 870, 900>>,
    <<"B", 830, 870>>, <<"B-", 800, 830>>, <<"C+", 770, 800>>, <<"C", 730, 770>>,
    <<"C-", 700, 730>>, <<"D", 600, 700>>, <<"F", 0, 600>> }

\* the recommendation bands of the specification, in tenths
RecommendationBands ==
  { <<"TRUSTED", 850, 1001>>, <<"CAUTION", 650, 850>>, <<"AVOID", 0, 650>> }

\* the labels of the bands that hold t tenths
BandsOf(bands, t) == { b[1] : b \in { x \in bands : x[2] <= t /\ t < x[3] } }

\* the one-decimal scores of [0, 100], in tenths
Tenths == 0..1000

\* every score of [0, 100] lies in one band of each table, the band the
\* function returns
BandsMatchFunctions ==
  \A t \in Tenths :
    /\ BandsOf(GradeBands, t) = { calculateGrade(Frac(t, 10)) }
    /\ BandsOf(RecommendationBands, t) = { calculateRecommendation(Frac(t, 10)) }

\* C14: every overall_score in [0, 100] lies in exactly one grade band and
\* one recommendation band, calculateGrade and calculateRecommendation return
\* that band, and a snapshot's grade and recommendation are the bands of its
\* overall_score.
C14_GradeAndRecommendationBands ==
  /\ BandsMatchFunctions
  /\ \A c \in Computations :
       /\ 10 % c.score.overall_score[2] = 0
       /\ BandsOf(GradeBands, MathRound(FracMul(c.score.overall_score, Int2Frac(10))))
            = { c.score.grade }
       /\ BandsOf(RecommendationBands, MathRound(FracMul(c.score.overall_score, Int2Frac(10))))
            = { c.score.recommendation }

\* a verify-live request has graded a tested endpoint below C-, AVOID
C14_Witness ==
  /\ verified # NULL
  /\ verified[1].score.grade \in {"D", "F"}
  /\ verified[1].score.recommendation = "AVOID"
  /\ Len(verified[1].tests) > 0

\* the records of a window that are successful, and those that also carry a
\* response sample
Successes(tests) == { i \in DOMAIN tests : tests[i].is_successful }

ValidSamples(tests) == { i \in Successes(tests) : tests[i].response_sample }

\* a rate of at least 95% scores in [90, 100], a rate below 70% in [0, 55)
AccuracyBands(rate, score) ==
  /\ FracGeqInt(rate, 95) => Within(score, 90, 100)
  /\ FracLessInt(rate, 70) => WithinHalfOpen(score, 0, 55)

\* C15 as stated: the accuracy score is mapped from the valid-sample count
\* divided by the number of successful tests of the window.
C15_AccuracyOfSuccessfulTests ==
  \A c \in Computations :
    Successes(c.tests) # {} =>
      AccuracyBands(Frac(100 * Cardinality(ValidSamples(c.tests)),
                         Cardinality(Successes(c.tests))),
                    c.score.accuracy_score)

\* C15 as amended: the accuracy score is mapped from the valid-sample count
\* divided by the number of all tests of the window, failed ones included.
C15_AccuracyOfAllTests ==
  \A c \in Computations :
    Len(c.tests) > 0 =>
      AccuracyBands(Frac(100 * Cardinality(ValidSamples(c.tests)), Len(c.tests)),
                    c.score.accuracy_score)

\* a window of a failed test and a successful test with a sample: every
\* successful test is valid, half of all tests are
C15_Witness ==
  \E c \in Computations :
    /\ Len(c.tests) = 2
    /\ Cardinality(Successes(c.tests)) = 1
    /\ Cardinality(ValidSamples(c.tests)) = 1
    /\ FracLessInt(c.score.accuracy_score, 55)

\* the smallest test_timestamp of a non-empty window
RECURSIVE OldestTimestamp(_)
OldestTimestamp(tests) ==
  IF Len(tests) = 1 THEN tests[1].test_timestamp
  ELSE LET rest == OldestTimestamp(Tail(tests))
       IN  IF tests[1].test_timestamp < rest THEN tests[1].test_timestamp ELSE rest

\* the time from the oldest record of the window to the computation
Elapsed(c) == c.score.last_calculated_at - OldestTimestamp(c.tests)

SameWindow(c1, c2) == c1.endpoint_id = c2.endpoint_id /\ c1.tests = c2.tests

\* C17 as stated: two computations from the same window yield the same
\* overall_score and the same sub-scores, whenever each is run.
C17_SameWindowSameScores ==
  \A c1, c2 \in Computations :
    SameWindow(c1, c2) =>
      /\ c1.score.overall_score = c2.score.overall_score
      /\ c1.score.uptime_score = c2.score.uptime_score
      /\ c1.score.speed_score = c2.score.speed_score
      /\ c1.score.accuracy_score = c2.score.accuracy_score
      /\ c1.score.age_score = c2.score.age_score

\* C17 as amended: two computations from the same window yield the same
\* uptime, speed and accuracy scores; the age score and the overall score
\* follow the clock, and the later computation never yields the lower ones.
C17_SameWindowScoresFollowClock ==
  \A c1, c2 \in Computations :
    SameWindow(c1, c2) =>
      /\ c1.score.uptime_score = c2.score.uptime_score
      /\ c1.score.speed_score = c2.score.speed_score
      /\ c1.score.accuracy_score = c2.score.accuracy_score
      /\ c1.score.last_calculated_at <= c2.score.last_calculated_at =>
           /\ ~FracLess(c2.score.age_score, c1.score.age_score)
           /\ ~FracLess(c2.score.overall_score, c1.score.overall_score)

\* two runs have scored the same non-empty window at different times and got
\* different overall scores
C17_Witness ==
  \E j1, j2 \in Jobs :
    /\ job[j1].score # NULL /\ job[j2].score # NULL
    /\ job[j1].endpoint_id = job[j2].endpoint_id
    /\ job[j1].tests = job[j2].tests
    /\ Len(job[j1].tests) > 0
    /\ job[j1].at < job[j2].at
    /\ FracLess(job[j1].score[1].overall_score, job[j2].score[1].overall_score)

\* C18: a prediction or a discrepancy with an out-of-range value or without
\* a required identifier is rejected and nothing of it is stored: every
\* stored prediction has a confidence_level in [0, 1], every stored
\* discrepancy an absolute_error in [0, 100], and both name their evaluator
\* and their target.
C18_OutOfRangeRejected ==
  /\ \A k \in DOMAIN evaluation_predictions :
       /\ Within(evaluation_predictions[k].confidence_level, 0, 1)
       /\ evaluation_predictions[k].evaluator_url # ""
       /\ evaluation_predictions[k].target_url # ""
  /\ \A k \in DOMAIN prediction_discrepancies :
       /\ prediction_discrepancies[k].absolute_error \in 0..100
       /\ prediction_discrepancies[k].evaluator_url # ""
       /\ prediction_discrepancies[k].target_url # ""

\* C19: whatever the interleaving of the saves, trust_scores holds at most
\* one row per endpoint, and the row holds all the values of one computation
\* for that endpoint.
C19_OneTrustScorePerEndpoint ==
  /\ \A k, l \in DOMAIN trust_scores :
       trust_scores[k].endpoint_id = trust_scores[l].endpoint_id => k = l
  /\ \A k \in DOMAIN trust_scores :
       \E j \in Jobs :
         /\ job[j].score # NULL
         /\ job[j].endpoint_id = trust_scores[k].endpoint_id
         /\ trust_scores[k] = TrustScoreRow(job[j].score[1])

\* two runs found no row for the endpoint, and the INSERT of the second was
\* refused
C19_Witness ==
  \E j1, j2 \in Jobs :
    /\ job[j1].pc = "done" /\ job[j2].pc = "failed"
    /\ job[j1].endpoint_id = job[j2].endpoint_id
    /\ Cardinality(ExistingTrustScore(job[j1].endpoint_id)) = 1

\* the records of a window without a latency, and the successful ones with
WithoutLatency(tests) == { i \in DOMAIN tests : tests[i].response_time_ms = NULL }

WithLatency(tests) ==
  { i \in DOMAIN tests : tests[i].is_successful /\ tests[i].response_time_ms # NULL }

RECURSIVE TotalLatency(_, _)
TotalLatency(tests, idx) ==
  IF idx = {} THEN 0
  ELSE LET i == CHOOSE k \in idx : TRUE
       IN  tests[i].response_time_ms[1] + TotalLatency(tests, idx \ {i})

\* C20: a window with a record without latency is scored like any other: the
\* record counts among the tests the uptime is a share of, and the average
\* latency is taken over the successful records that have one.
C20_MissingLatency ==
  \A c \in Computations :
    WithoutLatency(c.tests) # {} =>
      /\ c.score.total_tests = Len(c.tests)
      /\ c.score.successful_tests + c.score.failed_tests = Len(c.tests)
      /\ c.score.successful_tests = Cardinality(Successes(c.tests))
      /\ c.score.uptime_score = Int2Frac(100) <=> Successes(c.tests) = DOMAIN c.tests
      /\ c.score.uptime_score = Int2Frac(0) <=> Successes(c.tests) = {}
      /\ c.score.avg_response_time_ms =
           IF WithLatency(c.tests) = {} THEN 0
           ELSE MathRound(Frac(TotalLatency(c.tests, WithLatency(c.tests)),
                               Cardinality(WithLatency(c.tests))))

\* a window of a successful test without latency and a successful test of
\* 150 ms: uptime 100, average 150 ms
C20_Witness ==
  \E c \in Computations :
    /\ Len(c.tests) = 2
    /\ Cardinality(WithoutLatency(c.tests)) = 1
    /\ c.score.uptime_score = Int2Frac(100)
    /\ c.score.avg_response_time_ms = 150

(* ------------------ properties: validation of requests ----------------- *)

\* a body that names its evaluator, its target and its grade and carries a
\* score of 0..100
CompleteWithScore(body, score, grade) ==
  /\ body.evaluator_url # ""
  /\ body.target_url # ""
  /\ grade # ""
  /\ score # NULL
  /\ score[1] \in 0..100

\* C29: a prediction whose predicted_score, or an evaluation whose score, is
\* any value of 0..100 (0 included) and whose other required fields are
\* present is stored and answered with success, not with 400.
C29_ZeroScoreAccepted ==
  \A r \in Requests :
    req[r].pc = "done" =>
      /\ (req[r].handler = "prediction"
            /\ CompleteWithScore(req[r].body, req[r].body.predicted_score,
                                 req[r].body.predicted_grade))
           => req[r].status = 200
      /\ (req[r].handler = "evaluation"
            /\ CompleteWithScore(req[r].body, req[r].body.score, req[r].body.grade))
           => req[r].status = 200

(* ------------- properties: counters and the discrepancy log ------------ *)

\* the rows of prediction_discrepancies stored for an evaluator url
DiscrepanciesOf(url) ==
  { k \in DOMAIN prediction_discrepancies :
      prediction_discrepancies[k].evaluator_url = url }

RECURSIVE SumAbsoluteError(_)
SumAbsoluteError(S) ==
  IF S = {} THEN 0
  ELSE LET k == CHOOSE x \in S : TRUE
       IN  prediction_discrepancies[k].absolute_error + SumAbsoluteError(S \ {k})

\* no discrepancy request is between its INSERT and its response
NoRequestInFlight == \A r \in Requests : req[r].pc \in {"idle", "done"}

AnsweredDiscrepancies(codes) ==
  { r \in Requests : /\ req[r].handler = "discrepancy"
                     /\ req[r].pc = "done"
                     /\ req[r].status \in codes }

C30_NoLatencyNoSpeedCredit ==
  \A c \in Computations :
    (Len(c.tests) > 0 /\ WithLatency(c.tests) = {}) =>
      c.score.speed_score = Int2Frac(0)

\* the age a computation measured: from the first_tested_at of its snapshot
\* to the clock reading it was run at
ElapsedAge(j) == job[j].at - job[j].score[1].first_tested_at[1]

\* C27: of two successive computations for one endpoint, the later one has a
\* first_tested_at that is not later and an elapsed age that is not shorter,
\* also when the endpoint has more test records than the window holds.
C27_FirstTestedNeverLater ==
  \A j1, j2 \in Jobs :
    (/\ j1 < j2
     /\ job[j1].score # NULL /\ job[j2].score # NULL
     /\ job[j1].endpoint_id = job[j2].endpoint_id) =>
      /\ job[j2].score[1].first_tested_at[1] <= job[j1].score[1].first_tested_at[1]
      /\ ElapsedAge(j2) >= ElapsedAge(j1)

(* ------------------------ properties: verify-live ---------------------- *)

\* the row saveTestResult would store for the live test of the response
LiveTestRow ==
  TestRow(verified[1].endpoint_id, verified[1].test_result.test_timestamp,
          verified[1].test_result)

\* C28: the live test of a verify-live request is stored as a test record of
\* the endpoint and is in the window the returned trust score is computed
\* from; so the score returned is not the zero-data score (0, F, AVOID, no
\* tests), and a /trust-score request for the endpoint finds a score.
C28_LiveTestScored ==
  verified # NULL =>
    /\ \E i \in DOMAIN endpoint_tests : endpoint_tests[i] = LiveTestRow
    /\ \E k \in DOMAIN verified[1].tests : verified[1].tests[k] = LiveTestRow
    /\ verified[1].score.total_tests >= 1
    /\ ~(/\ verified[1].score.overall_score = Int2Frac(0)
         /\ verified[1].score.grade = "F"
         /\ verified[1].score.recommendation = "AVOID")
    /\ handleTrustScore(verified[1].endpoint_id).status = 200

(* ------------------ properties: the scoring functions ------------------ *)

\* C23: for uptime percentages p1 < p2 of [0, 100], calculateUptimeScore(p1)
\* <= calculateUptimeScore(p2), the band boundaries 80, 90, 95 and 99
\* included.
C23_UptimeScoreMonotonic ==
  [][ (/\ sample.fn = "uptime" /\ sample'.fn = "uptime"
       /\ FracLess(sample.x, sample'.x))
        => ~FracLess(sample'.y, sample.y) ]_vars

\* the function has been applied at the boundary 95, where it gives 85
C23_Witness ==
  /\ sample.fn = "uptime"
  /\ sample.x = Int2Frac(95)
  /\ sample.y = Int2Frac(85)

\* C24: for mean latencies l1 < l2, calculateSpeedScore(l1) >=
\* calculateSpeedScore(l2), the band boundaries 200, 500, 1000 and 2000 ms
\* included, and the score is never below 0, however large the latency.
C24_SpeedScoreMonotonic ==
  [][ /\ (/\ sample.fn = "speed" /\ sample'.fn = "speed"
          /\ FracLess(sample.x, sample'.x))
           => ~FracLess(sample.y, sample'.y)
      /\ sample'.fn = "speed" =>
           /\ FracGeqInt(sample'.y, 0)
           /\ FracGeqInt(sample'.x, 4000) => sample'.y = Int2Frac(0) ]_vars

\* the function has been applied to a latency of 1000 s, where it gives 0
C24_Witness ==
  /\ sample.fn = "speed"
  /\ sample.x = Int2Frac(1000000)
  /\ sample.y = Int2Frac(0)

(* --------------------- properties: the request gateway ----------------- *)

\* what the database holds
Stored ==
  <<evaluators, prediction_discrepancies, evaluator_reputation_history,
    evaluation_predictions, agent_evaluations, endpoint_tests, trust_scores,
    endpoints, agent_health_reports>>

\* the X-Internal-API-Key header of request r is absent or is not the
\* configured key
WithoutKey(r) == headers[r].api_key # INTERNAL_API_KEY

\* C21: a POST to an /internal/* route whose X-Internal-API-Key header is
\* absent or differs from the configured key is answered 401 in the step it
\* arrives in, and that step writes no table and starts no discovery,
\* testing or scoring job; the request takes no step after it.
C21_InternalRoutesNeedKey ==
  [][ \A r \in Requests :
        WithoutKey(r) =>
          /\ req'[r].pc \in {"idle", "done"}
          /\ (req[r].pc = "idle" /\ req'[r].pc # "idle") =>
               /\ req'[r].status = 401
               /\ UNCHANGED Stored
               /\ UNCHANGED <<runs, job, verified>>
          /\ req[r].pc = "done" => req'[r] = req[r] ]_vars

\* a request with a wrong key and a payment was answered 401 on the testing
\* trigger, after a request with the key had stored an evaluation
C21_Witness ==
  \E r, q \in Requests :
    /\ headers[r].api_key = Some("guess")
    /\ req[r].handler = "/internal/trigger-testing"
    /\ req[r].status = 401
    /\ q < r
    /\ req[q].handler = "evaluation"
    /\ req[q].status = 200
    /\ Len(agent_evaluations) = 1
    /\ endpoint_tests = <<>>
    /\ runs = {}

\* request r carries a payment proof and an X-Payment-Amount that is a number
\* and is at least the price
PaysAtLeast(r, price) ==
  /\ headers[r].payment_proof # NULL
  /\ headers[r].payment_amount # NULL
  /\ parseFloat(headers[r].payment_amount[1]) # NaN
  /\ ~FracLess(parseFloat(headers[r].payment_amount[1]), price)

\* C22: a request without the internal key to a priced route is answered
\* 402 unless it carries a payment proof and an X-Payment-Amount that is a
\* number of at least the route's price; an amount that is not a number is
\* answered 402.
C22_ServedOnlyWhenPaid ==
  \A r \in Requests :
    (req[r].pc = "done" /\ WithoutKey(r)) =>
      (req[r].status = 402 <=> ~PaysAtLeast(r, PriceOf(req[r].handler)))

====
